---- MODULE Spec2Model ----
\* A model of elan_data: the ELAN_Data document (src/elan_data/__init__.py)
\* and the TierType / Tier / Subtier / Segmentations classes
\* (src/elan_data/tiers.py).
\*
\* Python values are modelled as follows.
\*   - a dataclass instance (TierType, Tier, Subtier) is a record of its fields;
\*     the sets of the document hold such records (equality by fields, as the
\*     dataclasses declare);
\*   - an XML element is a record [tag, attrib] whose attrib is a record of the
\*     attributes that are present ("X" \in DOMAIN e.attrib is `"X" in e.attrib`);
\*   - a string whose characters matter (segment ids, the str() of a number) is
\*     a sequence of character codes; opaque strings (tier names, texts) are
\*     TLA+ strings;
\*   - the DataFrame of a Segmentations object is the sequence of its rows, a
\*     row being a record of the columns that were given a value;
\*   - a raised exception is the name of its class in the variable `result`.
\*
\* The statements are modelled as Python and pandas run them. TierType, Tier
\* and Subtier are dataclasses that define __eq__ and no __hash__, so no set
\* can hold one: every set.add of one raises TypeError, and so does every
\* ELAN_Data(file), whose tree has a TIER element. No constructor and no
\* class method of ELAN_Data therefore gives an object: the behaviours of the
\* program start before a call (InitNew, InitEntity) and hold Segmentations,
\* TierType, Tier and Subtier objects only. The methods of ELAN_Data run
\* inside the class methods; add_audio and the methods that change the tiers
\* and the segments are also examined on every value the attributes they
\* read could have (InitInstance), which is more than the program reaches.
EXTENDS Integers, Sequences, FiniteSets, TLC

\* ------------------------------------------------------------------ bounds
MaxTracks == 2      \* TIER elements in a parsed file
MaxList   == 2      \* length of a list argument (add_tiers, remove_tiers, rows)
MaxTime   == 1      \* start/end arguments range over -1 .. MaxTime
MaxIdNum  == 3      \* largest numeric suffix of an id recovered by the constructor

\* ------------------------------------------------------------- universes
TierIds  == {"default", "child", "A"}
TypeIds  == {"default-lt", "sub-lt"}
Texts    == {"hello"}
Times    == -1 .. MaxTime
NoAudio  == <<>>

RECURSIVE SeqsUpTo(_, _)
SeqsUpTo(S, n) ==
    IF n = 0 THEN {<<>>}
    ELSE LET shorter == SeqsUpTo(S, n - 1)
         IN  shorter \cup {Append(s, x) : s \in {t \in shorter : Len(t) = n - 1}, x \in S}

Range(s) == {s[i] : i \in DOMAIN s}

\* ------------------------------------------------- strings that are looked into
\* Character codes: "0".."9" are 48..57, "a" is 97, "n" is 110.
Digit(d) == 48 + d
StrA     == <<97>>
StrNan   == <<110, 97, 110>>

\* str(n) for an int n >= 0
RECURSIVE Str(_)
Str(n) == IF n < 10 THEN <<Digit(n)>> ELSE Str(n \div 10) \o <<Digit(n % 10)>>

\* s < t for Python strings (lexicographic on code points)
RECURSIVE StrLess(_, _)
StrLess(s, t) ==
    IF t = <<>> THEN FALSE
    ELSE IF s = <<>> THEN TRUE
    ELSE IF Head(s) # Head(t) THEN Head(s) < Head(t)
    ELSE StrLess(Tail(s), Tail(t))

\* -------------------------------------------------------------- TierType
_STEREOTYPE ==
    {"None", "Time_Subdivision", "Symbolic_Subdivision", "Symbolic_Association", "Included_In"}

Ok(v)   == [ok |-> TRUE, val |-> v]
Err(e)  == [ok |-> FALSE, err |-> e]

\* None where a str is expected, and None as the value a call returns (a
\* returned value is a record that names its kind)
PyNone  == "<None>"
Nothing == [kind |-> "None"]

\* TierType.__init__; a name that is not a str is PyNone
TierType(name, stereotype) ==
    IF name = PyNone THEN Err("TypeError")
    ELSE IF stereotype \notin _STEREOTYPE THEN Err("TypeError")
    ELSE Ok([name |-> name, stereotype |-> stereotype])

DefaultTierType == TierType("default-lt", "None").val

\* TierType.from_xml that does not read CONSTRAINTS
TierType_from_xml_NoConstraints(tag) ==
    IF tag.tag # "LINGUISTIC_TYPE"
    THEN Err("ValueError")
    ELSE Ok(TierType(tag.attrib.LINGUISTIC_TYPE_ID, "None").val)

\* TierType.from_xml: the stereotype is assigned after construction, unchecked
TierType_from_xml(tag) ==
    IF tag.tag # "LINGUISTIC_TYPE"
    THEN Err("ValueError")
    ELSE LET type_obj == TierType(tag.attrib.LINGUISTIC_TYPE_ID, "None").val
         IN  IF "CONSTRAINTS" \in DOMAIN tag.attrib
             THEN Ok([type_obj EXCEPT !.stereotype = tag.attrib.CONSTRAINTS])
             ELSE Ok(type_obj)

\* TierType.as_xml with every stereotype written as time-alignable
TierType_as_xml_AlwaysAlignable(t) ==
    [tag |-> "LINGUISTIC_TYPE",
     attrib |->
        IF t.stereotype = "None"
        THEN [GRAPHIC_REFERENCES |-> "false", LINGUISTIC_TYPE_ID |-> t.name,
              TIME_ALIGNABLE |-> "true"]
        ELSE [GRAPHIC_REFERENCES |-> "false", LINGUISTIC_TYPE_ID |-> t.name,
              TIME_ALIGNABLE |-> "true", CONSTRAINTS |-> t.stereotype]]

\* TierType.as_xml
TierType_as_xml(t) ==
    [tag |-> "LINGUISTIC_TYPE",
     attrib |->
        IF t.stereotype = "None"
        THEN [GRAPHIC_REFERENCES |-> "false", LINGUISTIC_TYPE_ID |-> t.name,
              TIME_ALIGNABLE |-> "true"]
        ELSE IF t.stereotype = "Time_Subdivision"
        THEN [GRAPHIC_REFERENCES |-> "false", LINGUISTIC_TYPE_ID |-> t.name,
              TIME_ALIGNABLE |-> "true", CONSTRAINTS |-> t.stereotype]
        ELSE [GRAPHIC_REFERENCES |-> "false", LINGUISTIC_TYPE_ID |-> t.name,
              TIME_ALIGNABLE |-> "false", CONSTRAINTS |-> t.stereotype]]

\* ------------------------------------------------------------------ Tier
\* S.add(x) for x a TierType, a Tier or a Subtier: the dataclass decorator
\* sets __hash__ to None for a class with eq and without frozen, so the
\* object is unhashable and the call raises TypeError
AddObject(S, x) == Err("TypeError")

\* Tier(name=..., tier_type=...): the dataclass constructor with its defaults
Tier(name, tier_type) ==
    [name |-> name, participant |-> "", annotator |-> "", tier_type |-> tier_type]

\* Optional PARTICIPANT / ANNOTATOR attributes are copied through
CopyMetadata(obj, tag) ==
    LET p == IF "PARTICIPANT" \in DOMAIN tag.attrib
             THEN [obj EXCEPT !.participant = tag.attrib.PARTICIPANT] ELSE obj
    IN  IF "ANNOTATOR" \in DOMAIN tag.attrib
        THEN [p EXCEPT !.annotator = tag.attrib.ANNOTATOR] ELSE p

\* Tier.from_xml(tag, tier_type) with tier_type a TierType object
Tier_from_xml(tag, tier_type) ==
    IF tag.tag # "TIER" THEN Err("ValueError")
    ELSE IF "PARENT_REF" \in DOMAIN tag.attrib THEN Err("TypeError")
    ELSE Ok(CopyMetadata(Tier(tag.attrib.TIER_ID, tier_type), tag))

\* Tier.as_xml writing PARTICIPANT and ANNOTATOR even when they are empty
Tier_as_xml_EmptyAttributes(t) ==
    [tag |-> "TIER",
     attrib |-> [LINGUISTIC_TYPE_REF |-> t.tier_type.name, TIER_ID |-> t.name,
                 PARTICIPANT |-> t.participant, ANNOTATOR |-> t.annotator]]

\* Tier.as_xml
Tier_as_xml(t) ==
    [tag |-> "TIER",
     attrib |->
        IF t.participant # "" /\ t.annotator # ""
        THEN [LINGUISTIC_TYPE_REF |-> t.tier_type.name, TIER_ID |-> t.name,
              PARTICIPANT |-> t.participant, ANNOTATOR |-> t.annotator]
        ELSE IF t.participant # ""
        THEN [LINGUISTIC_TYPE_REF |-> t.tier_type.name, TIER_ID |-> t.name,
              PARTICIPANT |-> t.participant]
        ELSE IF t.annotator # ""
        THEN [LINGUISTIC_TYPE_REF |-> t.tier_type.name, TIER_ID |-> t.name,
              ANNOTATOR |-> t.annotator]
        ELSE [LINGUISTIC_TYPE_REF |-> t.tier_type.name, TIER_ID |-> t.name]]

\* --------------------------------------------------------------- Subtier
Subtier(name, tier_type, parent) ==
    [name |-> name, participant |-> "", annotator |-> "", tier_type |-> tier_type,
     parent |-> parent]

\* Subtier.from_xml without its test for PARENT_REF
Subtier_from_xml_AnyTier(tag, tier_type, parent) ==
    IF tag.tag # "TIER" THEN Err("ValueError")
    ELSE Ok(CopyMetadata(Subtier(tag.attrib.TIER_ID, tier_type, parent), tag))

\* Subtier.from_xml(tag, tier_type, parent=parent)
Subtier_from_xml(tag, tier_type, parent) ==
    IF tag.tag # "TIER" THEN Err("ValueError")
    ELSE IF "PARENT_REF" \notin DOMAIN tag.attrib THEN Err("TypeError")
    ELSE Ok(CopyMetadata(Subtier(tag.attrib.TIER_ID, tier_type, parent), tag))

\* Subtier.as_xml: the element of Tier.as_xml with PARENT_REF set
Subtier_as_xml(t) ==
    [tag |-> "TIER",
     attrib |->
        IF t.participant # "" /\ t.annotator # ""
        THEN [LINGUISTIC_TYPE_REF |-> t.tier_type.name, TIER_ID |-> t.name,
              PARTICIPANT |-> t.participant, ANNOTATOR |-> t.annotator,
              PARENT_REF |-> t.parent.name]
        ELSE IF t.participant # ""
        THEN [LINGUISTIC_TYPE_REF |-> t.tier_type.name, TIER_ID |-> t.name,
              PARTICIPANT |-> t.participant, PARENT_REF |-> t.parent.name]
        ELSE IF t.annotator # ""
        THEN [LINGUISTIC_TYPE_REF |-> t.tier_type.name, TIER_ID |-> t.name,
              ANNOTATOR |-> t.annotator, PARENT_REF |-> t.parent.name]
        ELSE [LINGUISTIC_TYPE_REF |-> t.tier_type.name, TIER_ID |-> t.name,
              PARENT_REF |-> t.parent.name]]

\* ------------------------------------------------- ELAN_Data._extract_tiers
\* A parsed tree is a record [tiers, types, media]: the TIER elements and the
\* LINGUISTIC_TYPE elements in document order, and the MEDIA_URL of the
\* element carrying MIME_TYPE (NoAudio when there is none).
EmptyDict == [k \in {} |-> k]
DictSet(d, k, v) == [x \in DOMAIN d \cup {k} |-> IF x = k THEN v ELSE d[x]]

\* tree.find(".//*[@LINGUISTIC_TYPE_ID='type_name']"): the first match, or None
FindType(tree, type_name) ==
    LET hits == {i \in DOMAIN tree.types : tree.types[i].attrib.LINGUISTIC_TYPE_ID = type_name}
    IN  IF hits = {} THEN Err("None")
        ELSE Ok(tree.types[CHOOSE i \in hits : \A j \in hits : i <= j])

\* The body of the first loop for one element, in steps; each step is given
\* the outcome of the step before it. TierType.from_xml of the declaration
\* tree.find returned (ValueError when it returned None)
TypeFound(found) ==
    IF ~found.ok THEN Err("ValueError") ELSE TierType_from_xml(found.val)

\* type_check[type_name] = tier_type, after tier_types.add(tier_type)
TypeChecked(acc, type_name, tier_type, types) ==
    IF ~types.ok THEN types
    ELSE Ok([acc EXCEPT !.tier_types = types.val,
                        !.type_check = DictSet(@, type_name, tier_type)])

\* tier_list.add(tier), after tier_names[name] = tier
TierListed(acc, name, tier, tier_list) ==
    IF ~tier_list.ok THEN tier_list
    ELSE Ok([acc EXCEPT !.tier_names = DictSet(@, name, tier), !.tier_list = tier_list.val])

\* The Tier of an element without PARENT_REF is put in tier_names and tier_list
TierKept(acc, name, tier) ==
    IF ~tier.ok THEN tier
    ELSE TierListed(acc, name, tier.val, AddObject(acc.tier_list, tier.val))

\* An element without PARENT_REF is made a Tier; one with PARENT_REF is
\* appended to subtier_eles
KeepElement(typed, element, tier_type) ==
    IF ~typed.ok THEN typed
    ELSE IF "PARENT_REF" \in DOMAIN element.attrib
    THEN Ok([typed.val EXCEPT !.subtier_eles = Append(@, element)])
    ELSE TierKept(typed.val, element.attrib.TIER_ID, Tier_from_xml(element, tier_type))

\* tier_types.add(tier_type), type_check, and the element itself
ScanTyped(acc, element, tt) ==
    IF ~tt.ok THEN tt
    ELSE KeepElement(TypeChecked(acc, element.attrib.LINGUISTIC_TYPE_REF, tt.val,
                                 AddObject(acc.tier_types, tt.val)),
                     element, tt.val)

\* The steps on the element: Ok(acc) or the exception
ScanElement(tree, element, acc) ==
    ScanTyped(acc, element, TypeFound(FindType(tree, element.attrib.LINGUISTIC_TYPE_REF)))

\* The first loop (over tree.findall(".//TIER")), from element i on. An
\* element is looked at only when its type name is not yet in type_check.
\* tier_types.add(tier_type) raises for the first element whose type is
\* declared, so the loop ends at the first element, with TypeError or with
\* ValueError.
RECURSIVE ScanTiers(_, _, _)
ScanRest(tree, i, done) ==
    IF ~done.ok THEN done ELSE ScanTiers(tree, i + 1, done.val)
ScanTiers(tree, i, acc) ==
    IF i > Len(tree.tiers) THEN Ok(acc)
    ELSE IF tree.tiers[i].attrib.LINGUISTIC_TYPE_REF \in DOMAIN acc.type_check
    THEN ScanTiers(tree, i + 1, acc)
    ELSE ScanRest(tree, i, ScanElement(tree, tree.tiers[i], acc))

\* The body of the second loop for one element: the type and the parent are
\* looked up (KeyError) and the Subtier is made
BuildElement(acc, element) ==
    IF element.attrib.LINGUISTIC_TYPE_REF \notin DOMAIN acc.type_check THEN Err("KeyError")
    ELSE IF element.attrib.PARENT_REF \notin DOMAIN acc.tier_names THEN Err("KeyError")
    ELSE Subtier_from_xml(element, acc.type_check[element.attrib.LINGUISTIC_TYPE_REF],
                          acc.tier_names[element.attrib.PARENT_REF])

\* tier_names[name] = subtier, after subtiers.add(subtier)
SubtierListed(acc, name, subtier, subtiers) ==
    IF ~subtiers.ok THEN subtiers
    ELSE Ok([acc EXCEPT !.subtiers = subtiers.val, !.tier_names = DictSet(@, name, subtier)])

KeepSubtier(acc, element, subtier) ==
    IF ~subtier.ok THEN subtier
    ELSE SubtierListed(acc, element.attrib.TIER_ID, subtier.val,
                       AddObject(acc.subtiers, subtier.val))

\* The second loop (over subtier_eles), from element i on
RECURSIVE BuildSubtiers(_, _)
BuildRest(i, done) ==
    IF ~done.ok THEN done ELSE BuildSubtiers(i + 1, done.val)
BuildSubtiers(i, acc) ==
    IF i > Len(acc.subtier_eles) THEN Ok(acc)
    ELSE BuildRest(i, KeepSubtier(acc, acc.subtier_eles[i],
                                  BuildElement(acc, acc.subtier_eles[i])))

\* What _extract_tiers returns after the two loops
Extracted(done) ==
    IF ~done.ok THEN done
    ELSE Ok([tiers      |-> done.val.tier_list,
             subtiers   |-> done.val.subtiers,
             tier_types |-> done.val.tier_types,
             names      |-> DOMAIN done.val.tier_names])

\* The second loop runs on what the first loop left
SecondLoop(first) ==
    IF ~first.ok THEN first ELSE BuildSubtiers(1, first.val)

\* _extract_tiers: Ok([tiers, subtiers, tier_types, names]) or the exception
\* it raises
_extract_tiers(tree) ==
    Extracted(SecondLoop(ScanTiers(tree, 1,
        [tier_list |-> {}, tier_names |-> EmptyDict, tier_types |-> {},
         type_check |-> EmptyDict, subtier_eles |-> <<>>, subtiers |-> {}])))

\* MINIMUM_ELAN: one TIER "default" of type "default-lt", no media descriptor
TierTag(id, type_ref) ==
    [tag |-> "TIER", attrib |-> [TIER_ID |-> id, LINGUISTIC_TYPE_REF |-> type_ref]]
SubtierTag(id, type_ref, parent_ref) ==
    [tag |-> "TIER",
     attrib |-> [TIER_ID |-> id, LINGUISTIC_TYPE_REF |-> type_ref, PARENT_REF |-> parent_ref]]
TypeTag(id) ==
    [tag |-> "LINGUISTIC_TYPE", attrib |-> [LINGUISTIC_TYPE_ID |-> id]]
ConstrainedTypeTag(id, constraints) ==
    [tag |-> "LINGUISTIC_TYPE", attrib |-> [LINGUISTIC_TYPE_ID |-> id, CONSTRAINTS |-> constraints]]

MINIMUM_ELAN ==
    [tiers |-> <<TierTag("default", "default-lt")>>,
     types |-> <<TypeTag("default-lt")>>,
     media |-> NoAudio]

\* ----------------------------------------------------------- Segmentations
\* The running id counter _ID is [kind |-> "int", val |-> n] while it is a
\* Python int, [kind |-> "str", val |-> s] when it holds a string and
\* [kind |-> "nan", val |-> StrNan] when it holds the float nan.
IntId(n) == [kind |-> "int", val |-> n]
StrId(s) == [kind |-> "str", val |-> s]
NanId    == [kind |-> "nan", val |-> StrNan]

\* f"{x}" of the counter
Format(id) == IF id.kind = "int" THEN Str(id.val) ELSE id.val

\* The six columns of a row of data; what _reinforce casts is already of the
\* column's type in the data this model gives the constructor
COLUMNS == {"TIER", "START", "END", "TEXT", "ID", "DURATION"}
_reinforce(rows) == [i \in DOMAIN rows |-> [c \in COLUMNS |-> rows[i][c]]]

\* Series.max() of a column of strings: the greatest in string order, nan if empty
MaxStr(S) == CHOOSE s \in S : \A t \in S : ~StrLess(s, t)
ColumnMax(rows) ==
    IF rows = <<>> THEN NanId ELSE StrId(MaxStr({rows[i].ID : i \in DOMAIN rows}))

\* Segmentations.__init__(data): data is [given |-> FALSE] for None and
\* [given |-> TRUE, rows |-> the rows of the dict or DataFrame] otherwise.
\* The else branch calls DataFrame.astype on the class, the dict taking the
\* place of self: TypeError (as Segmentations() is, for its missing argument).
Segmentations(data) ==
    IF data.given
    THEN LET kept == _reinforce(data.rows)
         IN  Ok([segments |-> kept, _ID |-> ColumnMax(kept)])
    ELSE Err("TypeError")

\* pd.DataFrame(values, columns=columns) of a flat list of scalars: the list
\* is one column of Len(values) rows, which any other number of column
\* labels than one does not fit
DataFrame(values, columns) ==
    IF Cardinality(columns) # 1 THEN Err("ValueError")
    ELSE Ok([i \in DOMAIN values |-> [c \in columns |-> values[i]]])

\* Segmentations.add_segment on a store st = [segments, _ID]:
\* [st |-> the store afterwards, result |-> "ok" or the exception]. The
\* frame of the new row is built before anything is assigned.
Seg_add_segment(st, tier, start, end, annotation) ==
    IF start < 0 \/ end <= start
    THEN [st |-> st, result |-> "ValueError"]
    ELSE LET row == DataFrame(<<tier, Str(start), Str(end), annotation,
                                StrA \o Format(st._ID)>>, COLUMNS)
         IN  IF ~row.ok THEN [st |-> st, result |-> row.err]
             ELSE LET grown == [st EXCEPT !.segments = @ \o row.val]
                  IN  CASE st._ID.kind = "int" ->
                             [st |-> [grown EXCEPT !._ID = IntId(@.val + 1)], result |-> "ok"]
                        [] st._ID.kind = "nan" ->
                             [st |-> grown, result |-> "ok"]
                        [] OTHER ->
                             [st |-> grown, result |-> "TypeError"]

\* An id argument is IntArg(n) for the int n and StrArg(s) for the str s
IntArg(n) == [int |-> n]
StrArg(s) == [str |-> s]

\* f"a{id}" if isinstance(id, int) else id
IdForm(id) == IF "int" \in DOMAIN id THEN StrA \o Str(id.int) ELSE id.str

\* self.segments[self.segments.ID == form]: the rows whose ID is form
Query(st, form) == SelectSeq(st.segments, LAMBDA row : row.ID = form)

\* Segmentations.get_segment: None, the DataFrame of the matching rows (also
\* what deep=True gives, whatever named_tuple is) or an iterator of tuples
Seg_get_segment(st, id, deep, named_tuple) ==
    LET query == Query(st, IdForm(id))
    IN  IF Len(query) = 0 THEN Nothing
        ELSE IF deep THEN [kind |-> "DataFrame", rows |-> query]
        ELSE IF ~named_tuple THEN [kind |-> "DataFrame", rows |-> query]
        ELSE [kind |-> "itertuples", rows |-> query]

\* Segmentations.remove_segment: self.segments.id names no column of the
\* frame (the column is ID) and no attribute of it: AttributeError, before
\* anything is looked up or dropped.
Seg_remove_segment(st, id) == [st |-> st, result |-> "AttributeError"]

\* A split argument is [kind |-> "int", val |-> p] for a timestamp and
\* [kind |-> "float", halves |-> k] for the ratio k/2.
Timestamp(p) == [kind |-> "int", val |-> p]
Ratio(k)     == [kind |-> "float", halves |-> k]

\* self.segments.loc[0, self.segments.ID == form]: the row labelled 0
\* (KeyError when the frame has no row), then its columns chosen by a
\* boolean Series that is indexed by the row labels and not by the column
\* names: pandas.errors.IndexingError, whatever form is.
LocRowZero(st, form) ==
    IF st.segments = <<>> THEN Err("KeyError") ELSE Err("IndexingError")

\* Segmentations.split_segment: the query raises, so the comparison with
\* split, the two add_segment calls and remove_segment are never reached.
Seg_split_segment_DropFirst(st, id, split) ==
    LET query == LocRowZero(st, IdForm(id))
    IN  [st |-> [st EXCEPT !.segments = SelectSeq(@, LAMBDA row : row.ID # IdForm(id))],
         result |-> query.err]

Seg_split_segment(st, id, split) ==
    LET query == LocRowZero(st, IdForm(id))
    IN  [st |-> st, result |-> query.err]

\* Segmentations.from_file. The file is a record [tiers, slots]: the TIER
\* elements in document order, each [TIER_ID, aligns] with aligns the
\* attributes and text of its ALIGNABLE_ANNOTATION elements, and slots the
\* TIME_VALUE of each TIME_SLOT_ID. data is the dict of column lists the
\* method fills: it is created with the keys TIER, START, END, TEXT and ID.
EmptyColumns == [TIER |-> <<>>, START |-> <<>>, END |-> <<>>, TEXT |-> <<>>, ID |-> <<>>]

\* tree.findall(".//*[@TIER_ID='{tier}']//ALIGNABLE_ANNOTATION"): the search
\* runs over the whole tree, so it gives the annotations of every TIER
\* element of that TIER_ID, in document order, from element i on
RECURSIVE AlignsOf(_, _, _)
AlignsOf(tree, tier, i) ==
    IF i > Len(tree.tiers) THEN <<>>
    ELSE IF tree.tiers[i].TIER_ID = tier
    THEN tree.tiers[i].aligns \o AlignsOf(tree, tier, i + 1)
    ELSE AlignsOf(tree, tier, i + 1)

\* tree.find(".//*[@TIER_ID='{tier}']//*[@ANNOTATION_ID='{id}']/ANNOTATION_VALUE").text:
\* the text of the first annotation of that id among those of the tier
FirstWithId(aligns, id) ==
    aligns[CHOOSE k \in DOMAIN aligns :
             /\ aligns[k].ANNOTATION_ID = id
             /\ \A j \in DOMAIN aligns : aligns[j].ANNOTATION_ID = id => k <= j]
TextOf(aligns, id) ==
    IF FirstWithId(aligns, id).text = PyNone THEN "" ELSE FirstWithId(aligns, id).text

\* The columns extended by the annotations found for one TIER element
Extended(data, tier, aligns, slots) ==
    [data EXCEPT
       !.TIER     = @ \o [k \in DOMAIN aligns |-> tier],
       !.ID       = @ \o [k \in DOMAIN aligns |-> aligns[k].ANNOTATION_ID],
       !.START    = @ \o [k \in DOMAIN aligns |-> slots[aligns[k].TIME_SLOT_REF1]],
       !.END      = @ \o [k \in DOMAIN aligns |-> slots[aligns[k].TIME_SLOT_REF2]],
       !.DURATION = @ \o [k \in DOMAIN aligns |->
                             slots[aligns[k].TIME_SLOT_REF1] - slots[aligns[k].TIME_SLOT_REF2]],
       !.TEXT     = @ \o [k \in DOMAIN aligns |-> TextOf(aligns, aligns[k].ANNOTATION_ID)]]

\* The body of the loop for one TIER element, given what the search found:
\* tree.find of a missing time slot is None (AttributeError, for the starts
\* and then for the ends), and data has no key DURATION (KeyError)
ReadElement(data, tier, aligns, slots) ==
    IF \E k \in DOMAIN aligns : aligns[k].TIME_SLOT_REF1 \notin DOMAIN slots
    THEN Err("AttributeError")
    ELSE IF \E k \in DOMAIN aligns : aligns[k].TIME_SLOT_REF2 \notin DOMAIN slots
    THEN Err("AttributeError")
    ELSE IF "DURATION" \notin DOMAIN data
    THEN Err("KeyError")
    ELSE Ok(Extended(data, tier, aligns, slots))

\* The loop over tree.findall(".//TIER"), from element i on
RECURSIVE ReadTiers(_, _, _)
ReadRest(tree, i, read) ==
    IF ~read.ok THEN read ELSE ReadTiers(tree, i + 1, read.val)
ReadTiers(tree, i, data) ==
    IF i > Len(tree.tiers) THEN Ok(data)
    ELSE ReadRest(tree, i,
           ReadElement(data, tree.tiers[i].TIER_ID,
                       AlignsOf(tree, tree.tiers[i].TIER_ID, 1), tree.slots))

\* cls(data=data) on the dict of columns: every key of COLUMNS is read
Seg_from_file(tree) ==
    LET read == ReadTiers(tree, 1, EmptyColumns)
    IN  IF ~read.ok THEN read
        ELSE IF \E c \in COLUMNS : c \notin DOMAIN read.val THEN Err("KeyError")
        ELSE Segmentations(
               [given |-> TRUE,
                rows  |-> [k \in DOMAIN read.val.ID |->
                             [c \in COLUMNS |-> read.val[c][k]]]])

\* ---------------------------------------------------------------- ELAN_Data
\* A document d is the record of the fields of an ELAN_Data object; media is
\* the MEDIA_URL of the MEDIA_DESCRIPTOR of its tree (NoAudio when absent).
Truthy(x) == x # "" /\ x # PyNone

StoreOf(d) == [segments |-> d.segments, _ID |-> d._ID]
WithStore(d, st) == [d EXCEPT !.segments = st.segments, !._ID = st._ID]

\* ELAN_Data(file): file is [kind, val], kind the class of the argument
\* ("str", "Path" or another one) and val its text. After the checks of the
\* argument, _extract_tiers runs on the tree of MINIMUM_ELAN and raises for
\* its TIER element; Segmentations() would raise next.
\* The object made of the tiers of the minimum file and an empty store
NewObject(parsed, store) ==
    IF ~parsed.ok THEN parsed
    ELSE IF ~store.ok THEN store
    ELSE Ok([names |-> parsed.val.names, tiers |-> parsed.val.tiers,
             subtiers |-> parsed.val.subtiers, tier_types |-> parsed.val.tier_types,
             audio |-> NoAudio, media |-> NoAudio,
             segments |-> store.val.segments, _ID |-> store.val._ID,
             modified |-> FALSE])

ELAN_Data_new(file) ==
    IF file.kind = "str" /\ file.val = "" THEN Err("ValueError")
    ELSE IF file.kind \notin {"str", "Path"} THEN Err("TypeError")
    ELSE NewObject(_extract_tiers(MINIMUM_ELAN), Segmentations([given |-> FALSE]))

add_tier(d, tier) ==
    IF ~Truthy(tier) \/ tier \in d.names
    THEN [d |-> d, result |-> "ok"]
    ELSE LET named == [d EXCEPT !.names = @ \cup {tier}]
             added == AddObject(named.tiers, Tier(tier, DefaultTierType))
         IN  IF ~added.ok THEN [d |-> named, result |-> added.err]
             ELSE [d |-> [named EXCEPT !.tiers = added.val, !.modified = TRUE],
                   result |-> "ok"]

\* ELAN_Data.add_tiers: the loop from element i on. The name of the first
\* element, the empty one included, is in names when tiers.add raises.
RECURSIVE AddEach(_, _, _)
AddEach(d, tiers, i) ==
    IF i > Len(tiers) THEN [d |-> [d EXCEPT !.modified = TRUE], result |-> "ok"]
    ELSE LET named == [d EXCEPT !.names = @ \cup {tiers[i]}]
             added == AddObject(named.tiers, Tier(tiers[i], DefaultTierType))
         IN  IF ~added.ok THEN [d |-> named, result |-> added.err]
             ELSE AddEach([named EXCEPT !.tiers = added.val], tiers, i + 1)

add_tiers(d, tiers) ==
    IF tiers = <<>> \/ \A i \in DOMAIN tiers : ~Truthy(tiers[i])
    THEN [d |-> d, result |-> "ok"]
    ELSE AddEach(d, tiers, 1)

\* ELAN_Data.remove_tiers: the loop from element i on. The set of documents
\* it can leave: the object removed is the first one of that name the
\* iteration over the set meets, and the method returns right after removing.
RECURSIVE RemoveEach(_, _, _)
RemoveEach(d, tiers, i) ==
    IF i > Len(tiers) THEN {d}
    ELSE LET name == tiers[i]
         IN  IF name \notin d.names THEN RemoveEach(d, tiers, i + 1)
             ELSE LET unnamed  == [d EXCEPT !.names = @ \ {name}]
                      roots    == {t \in d.tiers : t.name = name}
                      children == {t \in d.subtiers : t.name = name}
                  IN  IF roots # {}
                      THEN {[unnamed EXCEPT !.tiers = @ \ {t}] : t \in roots}
                      ELSE IF children # {}
                      THEN {[unnamed EXCEPT !.subtiers = @ \ {t}] : t \in children}
                      ELSE RemoveEach(unnamed, tiers, i + 1)

remove_tiers(d, tiers) == RemoveEach(d, tiers, 1)

\* ELAN_Data.add_audio. A path is the sequence of its components, the empty
\* sequence being None or ""; Absolute is Path.absolute and AsUri Path.as_uri.
Cwd == <<"/", "cwd">>
Absolute(path) == IF Head(path) = "/" THEN path ELSE Cwd \o path
AsUri(abs)     == <<"file:">> \o abs

\* add_audio marking the document modified whatever the descriptor held
add_audio_AlwaysModified(d, audio) ==
    IF audio = <<>>
    THEN d
    ELSE [d EXCEPT !.audio = Absolute(audio), !.media = AsUri(Absolute(audio)),
                   !.modified = TRUE]

add_audio(d, audio) ==
    IF audio = <<>>
    THEN d
    ELSE LET located == [d EXCEPT !.audio = Absolute(audio)]
             url     == AsUri(Absolute(audio))
         IN  IF d.media = url THEN located
             ELSE [located EXCEPT !.media = url, !.modified = TRUE]

\* ELAN_Data.add_segment: what add_tier raises for a missing tier leaves the
\* method before the store is called
add_segment(d, tier, start, end, annotation) ==
    IF ~Truthy(tier) THEN [d |-> d, result |-> "ValueError"]
    ELSE IF start < 0 \/ start > end THEN [d |-> d, result |-> "ValueError"]
    ELSE LET made == IF tier \notin d.names THEN add_tier(d, tier)
                     ELSE [d |-> d, result |-> "ok"]
         IN  IF made.result # "ok" THEN made
             ELSE LET added == Seg_add_segment(StoreOf(made.d), tier, start, end, annotation)
                  IN  [d |-> WithStore(made.d, added.st), result |-> added.result]

\* bool(x) of what Segmentations.get_segment returned: None is false, an
\* iterator is true, and the truth value of a DataFrame is not defined
\* (pandas raises ValueError for it, whatever its size)
Truth(x) ==
    IF x.kind = "None" THEN Ok(FALSE)
    ELSE IF x.kind = "DataFrame" THEN Err("ValueError")
    ELSE Ok(TRUE)

\* ELAN_Data.get_segment: `row.TEXT if row else row` with row what
\* get_segment(id=id, deep=True, named_tuple=True) returned; an iterator
\* has no attribute TEXT
get_segment(d, id) ==
    LET row   == Seg_get_segment(StoreOf(d), id, TRUE, TRUE)
        found == Truth(row)
    IN  IF ~found.ok THEN [result |-> found.err, returned |-> Nothing]
        ELSE IF found.val THEN [result |-> "AttributeError", returned |-> Nothing]
        ELSE [result |-> "ok", returned |-> row]

\* str.replace("file:", "") followed by Path(): the URL without its scheme
StripScheme(url) == SelectSeq(url, LAMBDA c : c # "file:")

\* ELAN_Data.from_file: the document, or the exception of cls(file) or of
\* _extract_tiers
FileParsed(ed_obj, tree, parsed) ==
    IF ~ed_obj.ok THEN ed_obj
    ELSE IF ~parsed.ok THEN parsed
    ELSE Ok([ed_obj.val EXCEPT
               !.names = parsed.val.names, !.tiers = parsed.val.tiers,
               !.subtiers = parsed.val.subtiers, !.tier_types = parsed.val.tier_types,
               !.media = tree.media, !.audio = StripScheme(tree.media),
               !.modified = FALSE])

from_file(file, tree) == FileParsed(ELAN_Data_new(file), tree, _extract_tiers(tree))

\* ELAN_Data.from_dataframe: the loop over the rows from row i on, tier_names
\* being the local set of the TIER_ID values seen so far; tiers.update of a
\* list of Tier objects adds each of them
RECURSIVE AddRows(_, _, _, _)
AddRows(d, rows, i, tier_names) ==
    IF i > Len(rows)
    THEN LET updated == IF tier_names = {} THEN Ok(d.tiers)
                        ELSE AddObject(d.tiers, Tier(CHOOSE name \in tier_names : TRUE,
                                                     DefaultTierType))
         IN  IF ~updated.ok THEN updated
             ELSE Ok([d EXCEPT !.tiers = updated.val, !.names = tier_names,
                               !.modified = FALSE])
    ELSE LET row   == rows[i]
             added == add_segment(d, row.TIER_ID, row.START, row.STOP, row.TEXT)
         IN  IF added.result # "ok" THEN Err(added.result)
             ELSE AddRows(added.d, rows, i + 1, tier_names \cup {row.TIER_ID})

from_dataframe(file, rows, audio) ==
    LET ed_obj == ELAN_Data_new(file)
    IN  IF ~ed_obj.ok THEN ed_obj
        ELSE AddRows(add_audio(ed_obj.val, audio), rows, 1, {})

\* ELAN_Data.create_eaf: the set of results it can have
create_eaf(file, audio, tiers, remove_default) ==
    LET ed_obj  == ELAN_Data_new(file)
        removed == IF ~ed_obj.ok THEN {}
                   ELSE IF remove_default THEN remove_tiers(ed_obj.val, <<"default">>)
                   ELSE {ed_obj.val}
    IN  IF ~ed_obj.ok THEN {ed_obj}
        ELSE {LET added == IF tiers # <<>> THEN add_tiers(d, tiers)
                           ELSE [d |-> d, result |-> "ok"]
              IN  IF added.result # "ok" THEN Err(added.result)
                  ELSE Ok([add_audio(added.d, audio) EXCEPT !.modified = FALSE])
              : d \in removed}

\* ------------------------------------------------------------------ state
VARIABLES
    phase,       \* "new" before a constructor ran, "ready" with a document, "failed"
                 \* when the constructor raised, "store" for a Segmentations object alone
    names, tiers, subtiers, tier_types, audio, media, modified,   \* the ELAN_Data fields
    segments, _ID,                                                \* the Segmentations fields
    call,        \* the last call and its arguments
    result,      \* "ok" or the exception the last call raised
    returned,    \* the value the last call returned (Nothing for None)
    used         \* the ids the rows of the store have had so far

docvars == <<names, tiers, subtiers, tier_types, audio, media, modified>>
vars == <<phase, names, tiers, subtiers, tier_types, audio, media, modified,
          segments, _ID, call, result, returned, used>>

\* The ids of the rows of a table
IdsOf(rows) == {rows[i].ID : i \in DOMAIN rows}

Doc == [names |-> names, tiers |-> tiers, subtiers |-> subtiers, tier_types |-> tier_types,
        audio |-> audio, media |-> media, modified |-> modified,
        segments |-> segments, _ID |-> _ID]

SetDoc(d) ==
    /\ names' = d.names /\ tiers' = d.tiers /\ subtiers' = d.subtiers
    /\ tier_types' = d.tier_types /\ audio' = d.audio /\ media' = d.media
    /\ modified' = d.modified /\ segments' = d.segments /\ _ID' = d._ID
    /\ used' = used \cup IdsOf(segments')

\* The variables while there is no object
NoDoc == [names |-> {}, tiers |-> {}, subtiers |-> {}, tier_types |-> {},
          audio |-> NoAudio, media |-> NoAudio, modified |-> FALSE,
          segments |-> <<>>, _ID |-> NanId]

\* What a factory leaves: a document, or nothing when it raised
Constructed(made) ==
    /\ returned' = Nothing
    /\ IF made.ok
       THEN phase' = "ready" /\ SetDoc(made.val) /\ result' = "ok"
       ELSE phase' = "failed" /\ SetDoc(NoDoc) /\ result' = made.err

\* ----------------------------------------------------------------- inputs
\* The file argument of ELAN_Data: a str, the empty str, a Path, None
FileArgs ==
    {[kind |-> "str", val |-> "new.eaf"], [kind |-> "str", val |-> ""],
     [kind |-> "Path", val |-> "new.eaf"], [kind |-> "NoneType", val |-> PyNone]}
\* The file argument the class methods are given
EafFile == [kind |-> "str", val |-> "new.eaf"]
NameArgs  == TierIds \cup {"", PyNone}
NameLists == SeqsUpTo(TierIds \cup {""}, MaxList)
AudioArgs == {<<>>, <<"key.wav">>}
\* The paths add_audio is called with: None, a relative path, the absolute
\* path of the same file and another file
AudioPaths == AudioArgs \cup {Cwd \o <<"key.wav">>, <<"other.wav">>}

TypeDecls ==
    {<<>>, <<TypeTag("default-lt")>>, <<ConstrainedTypeTag("sub-lt", "Symbolic_Association")>>,
     <<TypeTag("default-lt"), ConstrainedTypeTag("sub-lt", "Symbolic_Association")>>}
FileTierIds == {"default", "child"}
TierTags ==
    {TierTag(id, t) : id \in FileTierIds, t \in TypeIds}
        \cup {SubtierTag(id, t, p) : id \in FileTierIds, t \in TypeIds, p \in TierIds}
\* The files parsed have at most MaxTracks TIER elements, of distinct TIER_ID
TierLists ==
    {ts \in SeqsUpTo(TierTags, MaxTracks) :
        \A i, j \in DOMAIN ts : ts[i].attrib.TIER_ID = ts[j].attrib.TIER_ID => i = j}
Trees ==
    {[tiers |-> ts, types |-> decls, media |-> NoAudio] : ts \in TierLists, decls \in TypeDecls}

TableRows ==
    [TIER_ID : TierIds \cup {""}, START : Times, STOP : Times, TEXT : Texts]
Tables == SeqsUpTo(TableRows, MaxList)

SegId(n) == StrA \o Str(n)
\* The rows given to the constructor span 0 .. MaxTime + 1
DataRows ==
    {[TIER |-> t, START |-> 0, END |-> MaxTime + 1, TEXT |-> x, ID |-> SegId(n),
      DURATION |-> MaxTime + 1] :
        t \in {"default", "A"}, x \in Texts, n \in 1 .. MaxIdNum}
StoreData ==
    {[given |-> FALSE]} \cup
    {[given |-> TRUE, rows |-> rows] :
        rows \in {r \in SeqsUpTo(DataRows, MaxList) :
                    \A i, j \in DOMAIN r : r[i].ID = r[j].ID => i = j}}



\* The ids looked up, removed and split: "a1", 1, 2 and "a9", the id of no row
IdArgs ==
    {StrArg(SegId(1)), IntArg(1), IntArg(2), StrArg(SegId(9))}
SplitArgs ==
    {Timestamp(p) : p \in -1 .. MaxTime + 2} \cup {Ratio(k) : k \in {-1, 1, 3}}

\* The files Segmentations.from_file reads: the time slots ts1 and ts2, and
\* annotations that reference them or the missing slot ts9
Slots == [x \in {"ts1", "ts2"} |-> IF x = "ts1" THEN 0 ELSE MaxTime]
AlignTags ==
    [ANNOTATION_ID : {SegId(1)}, TIME_SLOT_REF1 : {"ts1"}, TIME_SLOT_REF2 : {"ts2", "ts9"},
     text : {"hello", PyNone}]
TierElements ==
    {[TIER_ID |-> id, aligns |-> as] : id \in {"default", "A"}, as \in SeqsUpTo(AlignTags, 1)}
AnnotationFiles ==
    {[tiers |-> ts, slots |-> Slots] : ts \in SeqsUpTo(TierElements, MaxTracks)}

\* The arguments of the TierType constructor and the tags given to the
\* from_xml methods of TierType, Tier and Subtier
TypeNameArgs   == TypeIds \cup {PyNone}
StereotypeArgs == _STEREOTYPE \cup {"Bogus", ""}
TypeTagArgs ==
    {TypeTag(id) : id \in TypeIds}
        \cup {ConstrainedTypeTag(id, c) : id \in TypeIds, c \in StereotypeArgs}
        \cup {TierTag("default", id) : id \in TypeIds}
People == {"", "Alejandro"}
DescribedTags ==
    {[tag |-> "TIER",
      attrib |-> [TIER_ID |-> "default", LINGUISTIC_TYPE_REF |-> "default-lt",
                  PARTICIPANT |-> p, ANNOTATOR |-> a]] : p, a \in People}
    \cup
    {[tag |-> "TIER",
      attrib |-> [TIER_ID |-> "child", LINGUISTIC_TYPE_REF |-> "default-lt",
                  PARTICIPANT |-> p, ANNOTATOR |-> a, PARENT_REF |-> "default"]] : p, a \in People}
TierTagArgs == TierTags \cup DescribedTags \cup {TypeTag(id) : id \in TypeIds}
TierTypeArgs ==
    {DefaultTierType, TierType("sub-lt", "Symbolic_Association").val}
\* parent is a Tier or a Subtier
ParentArgs ==
    {Tier("default", DefaultTierType), Tier("A", DefaultTierType),
     Subtier("child", DefaultTierType, Tier("default", DefaultTierType))}

\* ---------------------------------------------------------------- actions
\* No object yet
Blank ==
    /\ names = {} /\ tiers = {} /\ subtiers = {} /\ tier_types = {}
    /\ audio = NoAudio /\ media = NoAudio /\ modified = FALSE
    /\ segments = <<>> /\ _ID = NanId

\* No call was made yet
Fresh ==
    /\ call = [op |-> "none"]
    /\ result = "ok"
    /\ returned = Nothing
    /\ used = IdsOf(segments)

\* Before a constructor or a class method is called
InitNew ==
    /\ phase = "new"
    /\ Blank
    /\ Fresh

\* The attributes of an ELAN_Data object as add_audio and the methods on the
\* tiers can find them: no Tier object (no set can hold one), a store without
\* rows, the media descriptor absent or naming key.wav. No call gives such an
\* object, so the states from here on contain every state of the program in
\* which add_audio could run; a law of add_audio that holds on them holds in
\* the program.
InitInstance ==
    /\ phase = "ready"
    /\ names = {} /\ tiers = {} /\ subtiers = {} /\ tier_types = {}
    /\ media \in {NoAudio, AsUri(Cwd \o <<"key.wav">>)}
    /\ audio = StripScheme(media)
    /\ modified = FALSE
    /\ segments = Segmentations([given |-> TRUE, rows |-> <<>>]).val.segments
    /\ _ID = Segmentations([given |-> TRUE, rows |-> <<>>]).val._ID
    /\ Fresh

\* ELAN_Data(file)
Create ==
    /\ phase = "new"
    /\ \E file \in FileArgs :
         /\ call' = [op |-> "ELAN_Data", file |-> file]
         /\ Constructed(ELAN_Data_new(file))

\* ELAN_Data.from_file(file), the file holding tree
FromFile ==
    /\ phase = "new"
    /\ \E tree \in Trees :
         /\ call' = [op |-> "from_file", tree |-> tree]
         /\ Constructed(from_file(EafFile, tree))

\* ELAN_Data.from_dataframe(df, file, audio)
FromDataframe ==
    /\ phase = "new"
    /\ \E rows \in Tables, a \in AudioArgs :
         /\ call' = [op |-> "from_dataframe", rows |-> rows, audio |-> a]
         /\ Constructed(from_dataframe(EafFile, rows, a))

\* ELAN_Data.create_eaf(file, audio, tiers, remove_default)
CreateEaf ==
    /\ phase = "new"
    /\ \E a \in AudioArgs, ts \in NameLists, remove_default \in BOOLEAN :
         /\ call' = [op |-> "create_eaf", audio |-> a, tiers |-> ts,
                     remove_default |-> remove_default]
         /\ \E made \in create_eaf(EafFile, a, ts, remove_default) : Constructed(made)

\* ed.add_tier(tier)
AddTier ==
    /\ phase = "ready"
    /\ \E tier \in NameArgs :
         LET done == add_tier(Doc, tier)
         IN  /\ call' = [op |-> "add_tier", tier |-> tier]
             /\ SetDoc(done.d)
             /\ result' = done.result
    /\ returned' = Nothing
    /\ UNCHANGED phase

\* ed.add_tiers(tiers)
AddTiers ==
    /\ phase = "ready"
    /\ \E ts \in NameLists :
         LET done == add_tiers(Doc, ts)
         IN  /\ call' = [op |-> "add_tiers", tiers |-> ts]
             /\ SetDoc(done.d)
             /\ result' = done.result
    /\ returned' = Nothing
    /\ UNCHANGED phase

\* ed.remove_tiers(tiers)
RemoveTiers ==
    /\ phase = "ready"
    /\ \E ts \in NameLists :
         /\ call' = [op |-> "remove_tiers", tiers |-> ts]
         /\ \E d \in remove_tiers(Doc, ts) : SetDoc(d)
         /\ result' = "ok"
    /\ returned' = Nothing
    /\ UNCHANGED phase

\* ed.add_segment(tier, start, end, annotation)
AddSegment ==
    /\ phase = "ready"
    /\ \E tier \in TierIds \cup {""}, start \in Times, end \in Times, text \in Texts :
         LET done == add_segment(Doc, tier, start, end, text)
         IN  /\ call' = [op |-> "add_segment", tier |-> tier, start |-> start,
                         end |-> end, annotation |-> text]
             /\ SetDoc(done.d)
             /\ result' = done.result
    /\ returned' = Nothing
    /\ UNCHANGED phase

\* ed.add_audio(audio)
AddAudio ==
    /\ phase = "ready"
    /\ \E a \in AudioPaths :
         /\ call' = [op |-> "add_audio", audio |-> a]
         /\ SetDoc(add_audio(Doc, a))
         /\ result' = "ok"
    /\ returned' = Nothing
    /\ UNCHANGED phase

\* Segmentations(data)
NewStore ==
    /\ phase = "new"
    /\ \E data \in StoreData :
         LET made == Segmentations(data)
         IN  /\ call' = [op |-> "Segmentations", data |-> data]
             /\ IF made.ok
                THEN /\ phase' = "store" /\ result' = "ok"
                     /\ segments' = made.val.segments /\ _ID' = made.val._ID
                ELSE /\ phase' = "failed" /\ result' = made.err
                     /\ UNCHANGED <<segments, _ID>>
    /\ returned' = Nothing
    /\ used' = used \cup IdsOf(segments')
    /\ UNCHANGED docvars

Init == InitNew

\* seg.add_segment(tier, start, end, annotation) on a Segmentations object
StoreAddSegment ==
    /\ phase = "store"
    /\ \E tier \in TierIds, start \in Times, end \in Times, text \in Texts :
         LET done == Seg_add_segment([segments |-> segments, _ID |-> _ID],
                                     tier, start, end, text)
         IN  /\ call' = [op |-> "Segmentations.add_segment", tier |-> tier,
                         start |-> start, end |-> end, annotation |-> text]
             /\ segments' = done.st.segments
             /\ _ID' = done.st._ID
             /\ result' = done.result
    /\ returned' = Nothing
    /\ used' = used \cup IdsOf(segments')
    /\ UNCHANGED <<phase, docvars>>

\* Segmentations.from_file(file), the file holding tree
StoreFromFile ==
    /\ phase = "new"
    /\ \E tree \in AnnotationFiles :
         LET made == Seg_from_file(tree)
         IN  /\ call' = [op |-> "Segmentations.from_file", tree |-> tree]
             /\ IF made.ok
                THEN /\ phase' = "store" /\ result' = "ok"
                     /\ segments' = made.val.segments /\ _ID' = made.val._ID
                ELSE /\ phase' = "failed" /\ result' = made.err
                     /\ UNCHANGED <<segments, _ID>>
    /\ returned' = Nothing
    /\ used' = used \cup IdsOf(segments')
    /\ UNCHANGED docvars

\* seg.get_segment(id, deep, named_tuple)
StoreGetSegment ==
    /\ phase = "store"
    /\ \E id \in IdArgs, deep \in BOOLEAN, named_tuple \in BOOLEAN :
         /\ call' = [op |-> "Segmentations.get_segment", id |-> id, deep |-> deep,
                     named_tuple |-> named_tuple]
         /\ returned' = Seg_get_segment([segments |-> segments, _ID |-> _ID],
                                        id, deep, named_tuple)
    /\ result' = "ok"
    /\ UNCHANGED <<phase, docvars, segments, _ID, used>>

\* seg.remove_segment(id)
StoreRemoveSegment ==
    /\ phase = "store"
    /\ \E id \in IdArgs :
         LET done == Seg_remove_segment([segments |-> segments, _ID |-> _ID], id)
         IN  /\ call' = [op |-> "Segmentations.remove_segment", id |-> id]
             /\ segments' = done.st.segments
             /\ _ID' = done.st._ID
             /\ result' = done.result
    /\ returned' = Nothing
    /\ used' = used \cup IdsOf(segments')
    /\ UNCHANGED <<phase, docvars>>

\* seg.split_segment(id, split)
StoreSplitSegment ==
    /\ phase = "store"
    /\ \E id \in IdArgs, split \in SplitArgs :
         LET done == Seg_split_segment([segments |-> segments, _ID |-> _ID], id, split)
         IN  /\ call' = [op |-> "Segmentations.split_segment", id |-> id, split |-> split]
             /\ segments' = done.st.segments
             /\ _ID' = done.st._ID
             /\ result' = done.result
    /\ returned' = Nothing
    /\ used' = used \cup IdsOf(segments')
    /\ UNCHANGED <<phase, docvars>>

\* Before a TierType, Tier or Subtier is made
InitEntity ==
    /\ phase = "entity"
    /\ Blank
    /\ Fresh

\* What a constructor or a from_xml leaves: the object, or the exception
Made(kind, made) ==
    IF made.ok
    THEN result' = "ok" /\ returned' = [kind |-> kind, val |-> made.val]
    ELSE result' = made.err /\ returned' = Nothing

\* TierType(name, stereotype)
NewTierType ==
    /\ phase = "entity"
    /\ \E name \in TypeNameArgs, stereotype \in StereotypeArgs :
         /\ call' = [op |-> "TierType", name |-> name, stereotype |-> stereotype]
         /\ Made("TierType", TierType(name, stereotype))
    /\ UNCHANGED <<phase, docvars, segments, _ID, used>>

\* TierType.from_xml(tag)
TierTypeFromXml ==
    /\ phase = "entity"
    /\ \E tag \in TypeTagArgs :
         /\ call' = [op |-> "TierType.from_xml", tag |-> tag]
         /\ Made("TierType", TierType_from_xml(tag))
    /\ UNCHANGED <<phase, docvars, segments, _ID, used>>

\* t.as_xml() of the TierType t the last call made
TierTypeAsXml ==
    /\ phase = "entity"
    /\ returned.kind = "TierType"
    /\ call' = [op |-> "TierType.as_xml", self |-> returned.val]
    /\ result' = "ok"
    /\ returned' = [kind |-> "Element", val |-> TierType_as_xml(returned.val)]
    /\ UNCHANGED <<phase, docvars, segments, _ID, used>>

\* Tier.from_xml(tag, tier_type)
TierFromXml ==
    /\ phase = "entity"
    /\ \E tag \in TierTagArgs, tier_type \in TierTypeArgs :
         /\ call' = [op |-> "Tier.from_xml", tag |-> tag, tier_type |-> tier_type]
         /\ Made("Tier", Tier_from_xml(tag, tier_type))
    /\ UNCHANGED <<phase, docvars, segments, _ID, used>>

\* Subtier.from_xml(tag, tier_type, parent=parent)
SubtierFromXml ==
    /\ phase = "entity"
    /\ \E tag \in TierTagArgs, tier_type \in TierTypeArgs, parent \in ParentArgs :
         /\ call' = [op |-> "Subtier.from_xml", tag |-> tag, tier_type |-> tier_type,
                     parent |-> parent]
         /\ Made("Subtier", Subtier_from_xml(tag, tier_type, parent))
    /\ UNCHANGED <<phase, docvars, segments, _ID, used>>

\* t.as_xml() of the Tier t the last call made
TierAsXml ==
    /\ phase = "entity"
    /\ returned.kind = "Tier"
    /\ call' = [op |-> "Tier.as_xml", self |-> returned.val]
    /\ result' = "ok"
    /\ returned' = [kind |-> "Element", val |-> Tier_as_xml(returned.val)]
    /\ UNCHANGED <<phase, docvars, segments, _ID, used>>

\* t.as_xml() of the Subtier t the last call made
SubtierAsXml ==
    /\ phase = "entity"
    /\ returned.kind = "Subtier"
    /\ call' = [op |-> "Subtier.as_xml", self |-> returned.val]
    /\ result' = "ok"
    /\ returned' = [kind |-> "Element", val |-> Subtier_as_xml(returned.val)]
    /\ UNCHANGED <<phase, docvars, segments, _ID, used>>

\* TierType.from_xml(t.as_xml()): the tag the last call made is read back
TierTypeFromOwnTag ==
    /\ phase = "entity"
    /\ call.op = "TierType.as_xml"
    /\ call' = [op |-> "TierType.from_xml", tag |-> returned.val, self |-> call.self]
    /\ Made("TierType", TierType_from_xml(returned.val))
    /\ UNCHANGED <<phase, docvars, segments, _ID, used>>

\* Tier.from_xml(r.as_xml(), r.tier_type)
TierFromOwnTag ==
    /\ phase = "entity"
    /\ call.op = "Tier.as_xml"
    /\ call' = [op |-> "Tier.from_xml", tag |-> returned.val,
                tier_type |-> call.self.tier_type, self |-> call.self]
    /\ Made("Tier", Tier_from_xml(returned.val, call.self.tier_type))
    /\ UNCHANGED <<phase, docvars, segments, _ID, used>>

\* Subtier.from_xml(s.as_xml(), s.tier_type, parent=s.parent)
SubtierFromOwnTag ==
    /\ phase = "entity"
    /\ call.op = "Subtier.as_xml"
    /\ call' = [op |-> "Subtier.from_xml", tag |-> returned.val,
                tier_type |-> call.self.tier_type, parent |-> call.self.parent,
                self |-> call.self]
    /\ Made("Subtier", Subtier_from_xml(returned.val, call.self.tier_type, call.self.parent))
    /\ UNCHANGED <<phase, docvars, segments, _ID, used>>

\* Every constructor and class method of ELAN_Data, and a Segmentations
\* object under the operations that read it or add to it
Next ==
    \/ Create \/ FromFile \/ FromDataframe \/ CreateEaf
    \/ NewStore \/ StoreAddSegment \/ StoreGetSegment

Spec == Init /\ [][Next]_vars

\* A Segmentations object, made by the constructor or by from_file, under
\* its own operations
StoreNext ==
    \/ NewStore \/ StoreFromFile
    \/ StoreAddSegment \/ StoreRemoveSegment \/ StoreSplitSegment \/ StoreGetSegment

StoreSpec == InitNew /\ [][StoreNext]_vars

\* The objects of tiers.py, made by their constructors and from_xml methods
EntityNext ==
    \/ NewTierType \/ TierTypeFromXml \/ TierTypeAsXml
    \/ TierFromXml \/ SubtierFromXml
    \/ TierAsXml \/ SubtierAsXml
    \/ TierTypeFromOwnTag \/ TierFromOwnTag \/ SubtierFromOwnTag

EntitySpec == InitEntity /\ [][EntityNext]_vars

\* add_audio and the methods that change the tiers and the segments
AudioNext ==
    \/ AddTier \/ AddTiers \/ RemoveTiers \/ AddSegment \/ AddAudio

AudioSpec == InitInstance /\ [][AudioNext]_vars

\* ================================================================== claims
NamesOf(objs) == {t.name : t \in objs}

\* ------------------------------------------------------------------- C2
\* C2: Segmentations.add_segment with 0 <= start < end adds exactly one row,
\* whose duration is end - start and whose id no row of the store carried.
C2_AddSegmentRow ==
    [][(call'.op = "Segmentations.add_segment" /\ 0 <= call'.start /\ call'.start < call'.end)
        => /\ Len(segments') = Len(segments) + 1
           /\ SubSeq(segments', 1, Len(segments)) = segments
           /\ "DURATION" \in DOMAIN segments'[Len(segments')]
           /\ segments'[Len(segments')].DURATION = call'.end - call'.start
           /\ \A i \in DOMAIN segments : segments[i].ID # segments'[Len(segments')].ID]_vars

\* ------------------------------------------------------------------- C3
TrackIds(tree) == {tree.tiers[i].attrib.TIER_ID : i \in DOMAIN tree.tiers}
RootIds(tree) ==
    {tree.tiers[i].attrib.TIER_ID :
        i \in {j \in DOMAIN tree.tiers : "PARENT_REF" \notin DOMAIN tree.tiers[j].attrib}}
ChildIds(tree) ==
    {tree.tiers[i].attrib.TIER_ID :
        i \in {j \in DOMAIN tree.tiers : "PARENT_REF" \in DOMAIN tree.tiers[j].attrib}}
Declared(tree) == {tree.types[i].attrib.LINGUISTIC_TYPE_ID : i \in DOMAIN tree.types}
HasUnknownType(tree) ==
    \E i \in DOMAIN tree.tiers : tree.tiers[i].attrib.LINGUISTIC_TYPE_REF \notin Declared(tree)
HasUnknownParent(tree) ==
    \E i \in DOMAIN tree.tiers :
        /\ "PARENT_REF" \in DOMAIN tree.tiers[i].attrib
        /\ tree.tiers[i].attrib.PARENT_REF \notin
              RootIds(tree) \cup
              {tree.tiers[j].attrib.TIER_ID :
                  j \in {k \in 1 .. i - 1 : "PARENT_REF" \in DOMAIN tree.tiers[k].attrib}}
\* Every type and every parent a TIER element names is in the file
IsResolvable(tree) == ~HasUnknownType(tree) /\ ~HasUnknownParent(tree)

\* C3: from_file of a file whose references all resolve leaves a document
\* that holds every TIER element of the file: names is the set of the
\* TIER_ID values, an element without PARENT_REF is the name of an object in
\* tiers and one with PARENT_REF of an object in subtiers.
C3_EveryTrackIsParsed ==
    (call.op = "from_file" /\ IsResolvable(call.tree))
        => /\ phase = "ready"
           /\ names = TrackIds(call.tree)
           /\ RootIds(call.tree) \subseteq NamesOf(tiers)
           /\ ChildIds(call.tree) \subseteq NamesOf(subtiers)

\* ------------------------------------------------------------------- C4
IsDefaultAndChild(tree) ==
    /\ Len(tree.tiers) = 2
    /\ \E i, j \in DOMAIN tree.tiers :
         /\ tree.tiers[i].attrib.TIER_ID = "default"
         /\ "PARENT_REF" \notin DOMAIN tree.tiers[i].attrib
         /\ tree.tiers[j].attrib.TIER_ID = "child"
         /\ "PARENT_REF" \in DOMAIN tree.tiers[j].attrib
         /\ tree.tiers[j].attrib.PARENT_REF = "default"

\* C4: from_file of a file whose TIER elements are "default" (no
\* PARENT_REF) and "child" (PARENT_REF "default"), their types declared,
\* gives one Tier "default" in tiers and one Subtier "child" in subtiers
\* whose parent is that Tier.
C4_DefaultAndChild ==
    (call.op = "from_file" /\ IsDefaultAndChild(call.tree) /\ IsResolvable(call.tree))
        => /\ phase = "ready"
           /\ Cardinality(tiers) = 1 /\ NamesOf(tiers) = {"default"}
           /\ Cardinality(subtiers) = 1 /\ NamesOf(subtiers) = {"child"}
           /\ \A s \in subtiers : s.parent \in tiers /\ s.parent.name = "default"

\* ------------------------------------------------------------------- C5
\* C5: from_file raises ValueError, and leaves no document, when a TIER
\* element names a type no LINGUISTIC_TYPE element declares, and when an
\* element with PARENT_REF names a parent that is no tier resolved before it
\* (a root tier of the file, or an earlier element with PARENT_REF).
C5_BadReferenceFails ==
    (call.op = "from_file" /\ ~IsResolvable(call.tree))
        => phase = "failed" /\ result = "ValueError"

\* ------------------------------------------------------------------- C9
\* int(s) of a string of digits
RECURSIVE Num(_)
Num(s) == IF s = <<>> THEN 0 ELSE 10 * Num(SubSeq(s, 1, Len(s) - 1)) + (s[Len(s)] - Digit(0))
Suffix(id) == Num(Tail(id))
MaxSuffix(rows) ==
    CHOOSE n \in {Suffix(rows[i].ID) : i \in DOMAIN rows} :
        \A i \in DOMAIN rows : Suffix(rows[i].ID) <= n

\* C9: right after Segmentations(data) the counter is 1 for an empty store
\* and otherwise the largest numeric suffix of the ids "a<N>" plus one.
C9_CounterAfterConstruction ==
    (phase = "store" /\ call.op = "Segmentations")
        => /\ _ID.kind = "int"
           /\ _ID.val = IF segments = <<>> THEN 1 ELSE MaxSuffix(segments) + 1

\* ------------------------------------------------------------------ C10
\* C10: after remove_tiers(L) no name of L is in names or the name of an
\* object in tiers or subtiers, and the objects named otherwise are kept.
C10_RemoveTiersRemovesAll ==
    [][call'.op = "remove_tiers"
        => LET L == Range(call'.tiers)
           IN  /\ names' = names \ L
               /\ tiers' = {t \in tiers : t.name \notin L}
               /\ subtiers' = {t \in subtiers : t.name \notin L}]_vars

C14_AddAudioIsIdempotent ==
    [][(call'.op = "add_audio" /\ call'.audio # <<>>)
        => LET url == AsUri(Absolute(call'.audio))
           IN  IF media = url
               THEN media' = media /\ modified' = modified
               ELSE media' = url /\ modified']_vars

\* the relative path of the file the media descriptor names was added, and
\* the document is still unmodified
C14_Witness ==
    /\ phase = "ready" /\ call.op = "add_audio" /\ call.audio = <<"key.wav">>
    /\ media = AsUri(Cwd \o <<"key.wav">>) /\ ~modified

\* ------------------------------------------------------------------ C15
Store == [segments |-> segments, _ID |-> _ID]
\* The rows of a store whose ID is form
Hits(st, form) == {i \in DOMAIN st.segments : st.segments[i].ID = form}
\* The table without its row i
Drop(rows, i) == SubSeq(rows, 1, i - 1) \o SubSeq(rows, i + 1, Len(rows))

\* C15: remove_segment(id) removes the one row of that id when exactly one
\* row has it, leaves the store as it was without raising when no row has
\* it, and raises, the store unchanged, only when several rows have it.
C15_RemoveSegmentByMatches ==
    [][call'.op = "Segmentations.remove_segment"
        => LET hits == Hits(Store, IdForm(call'.id))
           IN  CASE Cardinality(hits) = 1 ->
                      /\ result' = "ok"
                      /\ segments' = Drop(segments, CHOOSE i \in hits : TRUE)
                 [] Cardinality(hits) = 0 ->
                      result' = "ok" /\ segments' = segments
                 [] OTHER ->
                      result' = "Exception" /\ segments' = segments]_vars

\* ------------------------------------------------------------------ C16
\* The number a START or END cell holds
Cell(row, column) == row[column]

\* Twice the split point a split argument names for a row: the timestamp,
\* or start + f * (end - start) for the ratio f
TwicePoint(row, split) ==
    IF split.kind = "int" THEN 2 * split.val
    ELSE 2 * Cell(row, "START")
            + split.halves * (Cell(row, "END") - Cell(row, "START"))

\* the row stands for the segment (tier, from, to, text)
IsSegment(row, tier, from, to, text) ==
    /\ row.TIER = tier /\ row.TEXT = text
    /\ Cell(row, "START") = from /\ Cell(row, "END") = to

\* C16: split_segment(id, p) on the one row of that id, with p a whole
\* number of ms strictly inside the row's interval (given as a timestamp or
\* as a ratio), succeeds and leaves the other rows as they were, the row
\* itself removed and the two rows (tier, start, p, text) and
\* (tier, p, end, text) added.
C16_SplitMakesTwoHalves ==
    [][call'.op = "Segmentations.split_segment"
        => LET hits == Hits(Store, IdForm(call'.id))
           IN  \A i \in hits :
                 LET row == segments[i]
                     p2  == TwicePoint(row, call'.split)
                     n   == Len(segments)
                 IN  (/\ Cardinality(hits) = 1 /\ p2 % 2 = 0
                      /\ 2 * Cell(row, "START") < p2 /\ p2 < 2 * Cell(row, "END"))
                     => /\ result' = "ok"
                        /\ Len(segments') = n + 1
                        /\ SubSeq(segments', 1, n - 1) = Drop(segments, i)
                        /\ IsSegment(segments'[n], row.TIER, Cell(row, "START"),
                                     p2 \div 2, row.TEXT)
                        /\ IsSegment(segments'[n + 1], row.TIER, p2 \div 2,
                                     Cell(row, "END"), row.TEXT)]_vars

\* ------------------------------------------------------------------ C17
\* C17: split_segment(id, p) on a row of that id raises ValueError whenever
\* the split point is before the row's start or after its end.
C17_SplitOutsideIsRejected ==
    [][call'.op = "Segmentations.split_segment"
        => \A i \in Hits(Store, IdForm(call'.id)) :
             LET row == segments[i]
                 p2  == TwicePoint(row, call'.split)
             IN  (p2 < 2 * Cell(row, "START") \/ p2 > 2 * Cell(row, "END"))
                 => result' = "ValueError"]_vars

\* ------------------------------------------------------------------ C19
\* every annotation of the file references time slots the file declares
IsAnchored(tree) ==
    \A i \in DOMAIN tree.tiers : \A k \in DOMAIN tree.tiers[i].aligns :
        /\ tree.tiers[i].aligns[k].TIME_SLOT_REF1 \in DOMAIN tree.slots
        /\ tree.tiers[i].aligns[k].TIME_SLOT_REF2 \in DOMAIN tree.slots

\* the row an annotation of a TIER element stands for
AnnotationRow(tree, tier, a) ==
    [TIER     |-> tier.TIER_ID,
     ID       |-> a.ANNOTATION_ID,
     START    |-> tree.slots[a.TIME_SLOT_REF1],
     END      |-> tree.slots[a.TIME_SLOT_REF2],
     DURATION |-> tree.slots[a.TIME_SLOT_REF2] - tree.slots[a.TIME_SLOT_REF1],
     TEXT     |-> IF a.text = PyNone THEN "" ELSE a.text]

FileRows(tree) ==
    UNION {{AnnotationRow(tree, tree.tiers[i], tree.tiers[i].aligns[k]) :
               k \in DOMAIN tree.tiers[i].aligns} : i \in DOMAIN tree.tiers}

\* C19: Segmentations.from_file of a file whose annotations reference
\* declared time slots gives a store whose rows are the annotations of the
\* file, START and END the TIME_VALUE of the two slots and DURATION their
\* difference END - START.
C19_FromFileRows ==
    (call.op = "Segmentations.from_file" /\ IsAnchored(call.tree))
        => /\ phase = "store" /\ result = "ok"
           /\ Range(segments) = FileRows(call.tree)

\* ------------------------------------------------------------------ C20
\* C20: every TierType object, made by the constructor or by from_xml, has
\* a stereotype of _STEREOTYPE: the constructor raises for a name that is
\* not a str and for a stereotype outside the set, and from_xml gives no
\* TierType for a tag whose CONSTRAINTS is outside the set.
C20_StereotypeIsKnown ==
    /\ (phase = "entity" /\ returned.kind = "TierType")
          => returned.val.stereotype \in _STEREOTYPE
    /\ (call.op = "TierType" /\ (call.name = PyNone \/ call.stereotype \notin _STEREOTYPE))
          => result # "ok"
    /\ (/\ call.op = "TierType.from_xml" /\ "CONSTRAINTS" \in DOMAIN call.tag.attrib
        /\ call.tag.attrib.CONSTRAINTS \notin _STEREOTYPE)
          => result # "ok"

\* ------------------------------------------------------------------ C21
\* C21: TierType.as_xml never raises and its tag is fixed by the stereotype:
\* "None" gives TIME_ALIGNABLE "true" and no CONSTRAINTS attribute,
\* "Time_Subdivision" gives TIME_ALIGNABLE "true" and CONSTRAINTS equal to
\* the stereotype, each of the three other stereotypes gives TIME_ALIGNABLE
\* "false" and CONSTRAINTS equal to the stereotype, and LINGUISTIC_TYPE_ID is
\* always the name of the type.
C21_AsXmlMapsTheStereotype ==
    call.op = "TierType.as_xml" =>
        /\ result = "ok"
        /\ returned.kind = "Element"
        /\ LET t == call.self
               a == returned.val.attrib
           IN  /\ a.LINGUISTIC_TYPE_ID = t.name
               /\ t.stereotype = "None" =>
                     a.TIME_ALIGNABLE = "true" /\ "CONSTRAINTS" \notin DOMAIN a
               /\ t.stereotype = "Time_Subdivision" =>
                     /\ a.TIME_ALIGNABLE = "true"
                     /\ "CONSTRAINTS" \in DOMAIN a /\ a.CONSTRAINTS = t.stereotype
               /\ t.stereotype \in {"Symbolic_Subdivision", "Symbolic_Association", "Included_In"} =>
                     /\ a.TIME_ALIGNABLE = "false"
                     /\ "CONSTRAINTS" \in DOMAIN a /\ a.CONSTRAINTS = t.stereotype

\* A type of stereotype Included_In, of a name other than the default one,
\* has been written as a tag
C21_Witness ==
    /\ call.op = "TierType.as_xml"
    /\ call.self.stereotype = "Included_In"
    /\ call.self.name # "default-lt"
    /\ returned.kind = "Element"
    /\ returned.val.attrib.TIME_ALIGNABLE = "false"

\* ------------------------------------------------------------------ C22
\* C22: Tier.from_xml and Subtier.from_xml (tier_type being a TierType)
\* both raise ValueError for a tag
\* that is not a TIER element; for a TIER tag with PARENT_REF Tier.from_xml
\* raises TypeError and Subtier.from_xml returns a Subtier; for a TIER tag
\* without PARENT_REF Subtier.from_xml raises TypeError and Tier.from_xml
\* returns a Tier. So no tag is accepted by both, and no TIER tag is
\* rejected by both.
C22_WrongVariantIsRejected ==
    call.op \in {"Tier.from_xml", "Subtier.from_xml"} =>
        LET isTier    == call.tag.tag = "TIER"
            hasParent == "PARENT_REF" \in DOMAIN call.tag.attrib
        IN  /\ ~isTier => result = "ValueError"
            /\ (isTier /\ hasParent /\ call.op = "Tier.from_xml") => result = "TypeError"
            /\ (isTier /\ ~hasParent /\ call.op = "Subtier.from_xml") => result = "TypeError"
            /\ (isTier /\ hasParent /\ call.op = "Subtier.from_xml")
                  => result = "ok" /\ returned.kind = "Subtier"
            /\ (isTier /\ ~hasParent /\ call.op = "Tier.from_xml")
                  => result = "ok" /\ returned.kind = "Tier"

\* Subtier.from_xml was given a TIER tag without PARENT_REF and raised
C22_Witness ==
    /\ call.op = "Subtier.from_xml"
    /\ call.tag.tag = "TIER"
    /\ "PARENT_REF" \notin DOMAIN call.tag.attrib
    /\ result = "TypeError"

\* ------------------------------------------------------------------ C23
\* C23: the tag of Tier.as_xml and Subtier.as_xml is a TIER element whose
\* TIER_ID is the name and whose LINGUISTIC_TYPE_REF is the name of the type;
\* PARTICIPANT (ANNOTATOR) is present exactly when participant (annotator)
\* is not empty, and then equals it; the tag of a Subtier always has
\* PARENT_REF equal to the name of the parent, the tag of a Tier never has
\* PARENT_REF.
C23_AsXmlAttributes ==
    call.op \in {"Tier.as_xml", "Subtier.as_xml"} =>
        /\ result = "ok"
        /\ returned.kind = "Element"
        /\ LET t == call.self
               a == returned.val.attrib
           IN  /\ returned.val.tag = "TIER"
               /\ a.TIER_ID = t.name
               /\ a.LINGUISTIC_TYPE_REF = t.tier_type.name
               /\ "PARTICIPANT" \in DOMAIN a <=> t.participant # ""
               /\ "PARTICIPANT" \in DOMAIN a => a.PARTICIPANT = t.participant
               /\ "ANNOTATOR" \in DOMAIN a <=> t.annotator # ""
               /\ "ANNOTATOR" \in DOMAIN a => a.ANNOTATOR = t.annotator
               /\ call.op = "Subtier.as_xml" =>
                     "PARENT_REF" \in DOMAIN a /\ a.PARENT_REF = t.parent.name
               /\ call.op = "Tier.as_xml" => "PARENT_REF" \notin DOMAIN a

\* A Subtier with a participant and no annotator, read from a tag whose
\* PARENT_REF is not the name of the parent given, has been written as a tag
C23_Witness ==
    /\ call.op = "Subtier.as_xml"
    /\ call.self.participant # "" /\ call.self.annotator = ""
    /\ call.self.parent.name = "A"
    /\ returned.kind = "Element"
    /\ returned.val.attrib.PARENT_REF = "A"
    /\ "ANNOTATOR" \notin DOMAIN returned.val.attrib

\* ------------------------------------------------------------------ C30
\* C30: reading back the tag an object wrote gives the object again:
\* TierType.from_xml(t.as_xml()) has the name and the stereotype of t,
\* Tier.from_xml(r.as_xml(), r.tier_type) has the name, participant,
\* annotator and type of r, and
\* Subtier.from_xml(s.as_xml(), s.tier_type, parent=s.parent) has the fields
\* and the parent of s.
C30_TagRoundTrip ==
    "self" \in DOMAIN call =>
        /\ call.op = "TierType.from_xml" =>
              /\ result = "ok" /\ returned.kind = "TierType"
              /\ returned.val.name = call.self.name
              /\ returned.val.stereotype = call.self.stereotype
        /\ call.op = "Tier.from_xml" =>
              /\ result = "ok" /\ returned.kind = "Tier"
              /\ returned.val.name = call.self.name
              /\ returned.val.participant = call.self.participant
              /\ returned.val.annotator = call.self.annotator
              /\ returned.val.tier_type = call.self.tier_type
        /\ call.op = "Subtier.from_xml" =>
              /\ result = "ok" /\ returned.kind = "Subtier"
              /\ returned.val = call.self

\* A TierType of a stereotype that is not time-alignable has been read back
\* from its own tag
C30_Witness ==
    /\ call.op = "TierType.from_xml"
    /\ "self" \in DOMAIN call
    /\ call.self.stereotype = "Symbolic_Subdivision"
    /\ call.tag.attrib.TIME_ALIGNABLE = "false"
    /\ result = "ok"

\* ------------------------------------------------------------------ C24
\* C24: ELAN_Data(file) with a non-empty str or a Path succeeds and leaves
\* the minimal document: names is {"default"}, tiers holds one Tier, named
\* "default" and of the default type, there are no subtiers, the store has
\* no rows, there is no audio and modified is False.
C24_CreateGivesTheSkeleton ==
    (/\ call.op = "ELAN_Data"
     /\ call.file.kind = "Path" \/ (call.file.kind = "str" /\ call.file.val # ""))
        => /\ result = "ok"
           /\ phase = "ready"
           /\ names = {"default"}
           /\ tiers = {Tier("default", DefaultTierType)}
           /\ subtiers = {}
           /\ segments = <<>>
           /\ audio = NoAudio /\ media = NoAudio
           /\ modified = FALSE

\* ------------------------------------------------------------------ C26
\* C26: in every document reached by parsing, add_tier, add_tiers and
\* remove_tiers, the parent of every Subtier in subtiers is an object of
\* tiers or subtiers and its name is in names; removing the parent of a
\* subtier does not leave the subtier behind.
C26_NoSubtierOutlivesItsParent ==
    phase = "ready" =>
        \A s \in subtiers :
            /\ s.parent \in tiers \cup subtiers
            /\ s.parent.name \in names

\* ------------------------------------------------------------------ C27
\* The file has two TIER elements, a root tier and a subtier of it
IsRootAndSubtier(tree) ==
    /\ Len(tree.tiers) = 2
    /\ \E i, j \in DOMAIN tree.tiers :
         /\ i # j
         /\ "PARENT_REF" \notin DOMAIN tree.tiers[i].attrib
         /\ "PARENT_REF" \in DOMAIN tree.tiers[j].attrib
         /\ tree.tiers[j].attrib.PARENT_REF = tree.tiers[i].attrib.TIER_ID

\* The same file with its two TIER elements in the other order
Swapped(tree) == [tree EXCEPT !.tiers = <<tree.tiers[2], tree.tiers[1]>>]

\* C27: from_file of a file of a root tier and a subtier of it, their types
\* declared, gives a document, and the same tiers, subtiers (with their
\* parents) and names whether the element of the subtier stands before or
\* after the element of its parent.
C27_ParseIgnoresElementOrder ==
    (call.op = "from_file" /\ IsRootAndSubtier(call.tree) /\ ~HasUnknownType(call.tree)) =>
        LET other == from_file(EafFile, Swapped(call.tree))
        IN  /\ result = "ok"
            /\ other.ok
            /\ other.val.tiers = tiers
            /\ other.val.subtiers = subtiers
            /\ other.val.names = names

\* ------------------------------------------------------------------ C28
\* C28: a call of split_segment that raises (no row of the id, a split
\* point outside the row, or one equal to its start or end) leaves the rows
\* and the id counter of the store as they were.
C28_FailedSplitChangesNothing ==
    [][(call'.op = "Segmentations.split_segment" /\ result' # "ok")
        => UNCHANGED <<segments, _ID>>]_vars

\* split_segment raised for a split point equal to the start of the row of
\* the id, and the row is in the store
C28_Witness ==
    /\ phase = "store" /\ call.op = "Segmentations.split_segment"
    /\ call.split = Timestamp(0)
    /\ result # "ok"
    /\ \E i \in DOMAIN segments :
         segments[i].ID = IdForm(call.id) /\ segments[i].START = 0

\* ------------------------------------------------------------------ C29
\* No two rows of a table have the same id
UniqueIds(rows) == \A i, j \in DOMAIN rows : rows[i].ID = rows[j].ID => i = j

\* C29: under add_segment, remove_segment and split_segment on one store
\* the id counter never decreases, a row that a call adds never has an id
\* that a row of the store has had before, and no two rows of the store have
\* the same id.
C29_IdsAreNeverReused ==
    [][call'.op \in {"Segmentations.add_segment", "Segmentations.remove_segment",
                     "Segmentations.split_segment"}
        => /\ _ID' = _ID \/ (_ID.kind = "int" /\ _ID'.kind = "int" /\ _ID'.val > _ID.val)
           /\ \A k \in DOMAIN segments' :
                 segments'[k] \notin Range(segments) => segments'[k].ID \notin used
           /\ UniqueIds(segments')]_vars

====
